---- MODULE Spec2Model ----
(***************************************************************************)
(* A model of the doogle peer node (package node): the XOR-metric routing  *)
(* table, certificate admission, the single-hop lookup, the DHT store and  *)
(* the query engine.                                                       *)
(*                                                                         *)
(* A doogleAddress is a 160-bit value; it is represented by the set of its *)
(* set bit indices (159 is the leading bit of byte 0, 0 the last bit of    *)
(* byte 19), so no address is truncated to the width of a machine integer. *)
(***************************************************************************)
EXTENDS Integers, Sequences, FiniteSets, TLC

(***************************************************************************)
(* Bounds of the model.                                                    *)
(***************************************************************************)
\* Remote hosts that may call the node (network addresses 1..NumHosts).
NumHosts == 6
\* The largest difficulty a node is started with.
MaxDifficulty == 1
\* Capacity of a routing bucket. The program's value is 20 (const bucketSize);
\* the model scales it down so that a full bucket is reached, and keeps it
\* above alpha so that a lookup leaves entries of its source bucket out.
bucketSize == 4
\* The number of threads that serve StoreItem at once.
NumThreads == 2
\* The nonces the search of a node address samples from (1..MaxNonce).
MaxNonce == 3

(***************************************************************************)
(* Program constants.                                                      *)
(***************************************************************************)
alpha == 3
maxNumGetItem == 20
addressBits == 160
addressLength == 20

Max(S) == CHOOSE x \in S : \A y \in S : y <= x

Range(s) == {s[i] : i \in 1..Len(s)}

(***************************************************************************)
(* Address algebra.                                                        *)
(***************************************************************************)
\* Byte-wise XOR of two addresses: the bits on which they differ.
xor(a, b) == (a \ b) \cup (b \ a)

\* Index of the highest set bit, -1 for the zero address.
getMostSignificantBit(d) == IF d = {} THEN -1 ELSE Max(d)

\* Unsigned big-endian lexicographic order: at the highest bit on which the
\* two addresses differ, b has the one.
lessThanEqual(a, b) == a = b \/ Max(xor(a, b)) \in b

\* The bits of the natural number k, as an address.
BitsOf(k) == {i \in 0..15 : (k \div (2 ^ i)) % 2 = 1}

(***************************************************************************)
(* SHA-1. The digest is modelled as an injective table over the inputs of  *)
(* the model: distinct inputs have distinct digests.                       *)
(***************************************************************************)
\* Digest of networkAddress || publicKey || nonce. Host 0 is the node itself.
\* Host 1 solves its puzzle to a short address, the other hosts to an
\* address with the leading bit set (bucket 159 of the node).
powHash(nAddr, pk, nonce) ==
    IF pk # nAddr \/ nonce # 1 THEN {159} \cup BitsOf(nAddr + 16 * nonce + 64 * pk)
    ELSE IF nAddr = 0 THEN {1}
    ELSE IF nAddr = 1 THEN {0}
    ELSE {159} \cup BitsOf(nAddr - 2)

\* Digest of a url (urls are numbered).
sha1Url(u) == {120} \cup BitsOf(u)

\* Digest of an index token or keyword.
sha1Token(t) ==
    CASE t = "a" -> {159, 1}
      [] t = "b" -> {158}
      [] OTHER -> {121}

\* The leading `difficulty` bits of the address are zero.
leadingZeroBits(da, difficulty) == \A b \in da : b < addressBits - difficulty

\* The digest is recomputed without the nonce.
verifyAddress_noNonce(da, nAddr, pk, nonce, difficulty) ==
    /\ powHash(nAddr, pk, 0) = da
    /\ leadingZeroBits(da, difficulty)

\* verifyAddress: recompute the digest; check equality and the leading zero bits.
verifyAddress(da, nAddr, pk, nonce, difficulty) ==
    /\ powHash(nAddr, pk, nonce) = da
    /\ leadingZeroBits(da, difficulty)

(***************************************************************************)
(* State of the node.                                                      *)
(***************************************************************************)
VARIABLES
    DAddr,          \* Node.DAddr
    nonce,          \* Node.nonce
    difficulty,     \* Node.difficulty
    routingTable,   \* Node.routingTable: bit index -> bucket (sequence of nodeInfo)
    lastUpdate,     \* history: the last call of updateRoutingTable
    reply,          \* history: the last RPC and its reply
    walk,           \* a call of findNearestNode in progress: its recursion
    dht,            \* Node.dht: index address -> dhtValue.itemAddresses
    items,          \* Node.items: item address -> item
    crawls,         \* history: the edge lists handed to crawler.Crawl
    query,          \* a call of GetIndex in progress: its locals and fan-out tasks
    calls,          \* the calls of StoreItem in progress: thread -> its locals
    dhtMux,         \* dhtValue.mux: index address -> the thread that holds it
    storeLog,       \* history: the (index, item) addresses requested and returned
    puzzle,         \* a derivation of a node address in progress, then its verification
    conns,          \* Node.nAddrToConn and the calls of getConnByNetworkAddress
    post            \* a call of PostUrl in progress: its locals and fan-out tasks

identity == <<DAddr, nonce, difficulty>>
routing == <<routingTable, lastUpdate>>
store == <<dht, items, crawls, storeLog>>
storing == <<calls, dhtMux>>
outbound == <<puzzle, conns, post>>

vars == <<identity, routing, reply, walk, store, query, storing, outbound>>

\* Node.certificate, as built by NewNode.
certificate ==
    [networkAddress |-> 0, doogleAddress |-> DAddr, addrLen |-> addressLength,
     publicKey |-> 0, nonce |-> nonce, difficulty |-> difficulty]

NoUpdate == [called |-> FALSE, ni |-> [dAddr |-> {}, nAddr |-> 0], prev |-> <<>>]

RemoveAt(s, i) == [j \in 1..(Len(s) - 1) |-> IF j < i THEN s[j] ELSE s[j + 1]]

(***************************************************************************)
(* Routing table.                                                          *)
(***************************************************************************)
\* popAndAppend with the shift forgotten: the last item is overwritten.
popAndAppend_noShift(prev, idx, ni) ==
    [j \in 1..Len(prev) |-> IF j - 1 = Len(prev) - 1 THEN ni ELSE prev[j]]

\* routingBucket.popAndAppend: pop the item on (0-based) idx, then append ni.
popAndAppend(prev, idx, ni) ==
    [j \in 1..Len(prev) |->
        IF j - 1 = Len(prev) - 1 THEN ni
        ELSE IF j - 1 < idx THEN prev[j]
        ELSE prev[j + 1]]

\* The bucket index computed from the peer address alone.
bucketIndex_noXor(info) == getMostSignificantBit(info.dAddr)

\* The bucket index updateRoutingTable computes for a nodeInfo.
bucketIndex(info) == getMostSignificantBit(xor(DAddr, info.dAddr))

\* A peer that is not in its bucket is appended, whatever the length.
updateRoutingTable_noCapacity(rt, info) ==
    LET idx == bucketIndex(info) IN
    IF idx < 0 THEN rt
    ELSE
        LET rb == rt[idx]
            hits == {i \in 1..Len(rb) : rb[i].dAddr = info.dAddr}
        IN  IF hits # {}
            THEN LET i == CHOOSE i \in hits : \A k \in hits : i <= k
                 IN [rt EXCEPT ![idx] = popAndAppend(rb, i - 1, rb[i])]
            ELSE [rt EXCEPT ![idx] = Append(rb, [nAddr |-> info.nAddr,
                                                 dAddr |-> info.dAddr])]

\* A peer that is in its bucket stays where it is.
updateRoutingTable_touchInPlace(rt, info) ==
    LET idx == bucketIndex(info) IN
    IF idx < 0 THEN rt
    ELSE
        LET rb == rt[idx]
            ni == [nAddr |-> info.nAddr, dAddr |-> info.dAddr]
        IN  IF \E i \in 1..Len(rb) : rb[i].dAddr = info.dAddr THEN rt
            ELSE IF Len(rb) < bucketSize
            THEN [rt EXCEPT ![idx] = Append(rb, ni)]
            ELSE [rt EXCEPT ![idx] = popAndAppend(rb, 0, ni)]

\* Node.updateRoutingTable: the routing table after the update with info.
updateRoutingTable(rt, info) ==
    LET idx == bucketIndex(info) IN
    IF idx < 0 THEN rt
    ELSE
        LET rb == rt[idx]
            hits == {i \in 1..Len(rb) : rb[i].dAddr = info.dAddr}
        IN  IF hits # {}
            THEN LET i == CHOOSE i \in hits : \A k \in hits : i <= k
                 IN [rt EXCEPT ![idx] = popAndAppend(rb, i - 1, rb[i])]
            ELSE LET ni == [nAddr |-> info.nAddr, dAddr |-> info.dAddr]
                 IN IF Len(rb) < bucketSize
                    THEN [rt EXCEPT ![idx] = Append(rb, ni)]
                    ELSE [rt EXCEPT ![idx] = popAndAppend(rb, 0, ni)]

\* History of one call of updateRoutingTable: the nodeInfo it was given and
\* the bucket of that nodeInfo as it was before the call.
updateRecord(rt, info) ==
    [called |-> TRUE, ni |-> info,
     prev |-> IF bucketIndex(info) < 0 THEN <<>> ELSE rt[bucketIndex(info)]]

(***************************************************************************)
(* Admission.                                                              *)
(***************************************************************************)
\* A request carries a certificate; own is true when the pointer is the
\* node's own certificate (a call the node makes to itself).
\* The declared difficulty is not compared with the node's.
isValidSender_anyDifficulty(ct, own) ==
    \/ own
    \/ /\ ~(ct.addrLen < addressLength)
       /\ verifyAddress(ct.doogleAddress, ct.networkAddress, ct.publicKey,
                        ct.nonce, ct.difficulty)

\* The certificate is admitted without the verification of its address.
isValidSender_noVerify(ct, own) ==
    \/ own
    \/ ~(ct.addrLen < addressLength \/ ct.difficulty < difficulty)

\* Node.isValidSender: the value it returns.
isValidSender(ct, own) ==
    \/ own
    \/ /\ ~(ct.addrLen < addressLength \/ ct.difficulty < difficulty)
       /\ verifyAddress(ct.doogleAddress, ct.networkAddress, ct.publicKey,
                        ct.nonce, ct.difficulty)

\* The nodeInfo isValidSender builds from a certificate.
nodeInfoOf(ct) == [dAddr |-> ct.doogleAddress, nAddr |-> ct.networkAddress]

\* The routing table is updated before the certificate is checked.
admitRoutingTable_unchecked(rt, ct, own) ==
    IF ~own THEN updateRoutingTable(rt, nodeInfoOf(ct)) ELSE rt

\* The routing table is left as it is.
admitRoutingTable_noTouch(rt, ct, own) == rt

\* Node.isValidSender: the routing table it leaves.
admitRoutingTable(rt, ct, own) ==
    IF ~own /\ isValidSender(ct, own) THEN updateRoutingTable(rt, nodeInfoOf(ct)) ELSE rt

admitUpdate(rt, ct, own) ==
    IF ~own /\ isValidSender(ct, own) THEN updateRecord(rt, nodeInfoOf(ct)) ELSE NoUpdate

(***************************************************************************)
(* Lookup engine.                                                          *)
(***************************************************************************)
\* getNextOffset without the mirrored sign at the upper end of the table.
getNextOffset_noMirror(msb, prevOffset) ==
    LET next == IF prevOffset <= 0 THEN prevOffset * (-1) + 1 ELSE prevOffset * (-1) IN
    IF msb + next < 0 /\ msb + (next * (-1) + 1) < 160
        THEN [offset |-> next * (-1) + 1, err |-> FALSE]
    ELSE IF msb + next < 0 /\ msb + (next * (-1) + 1) >= 160
        THEN [offset |-> 0, err |-> TRUE]
    ELSE [offset |-> next, err |-> FALSE]

\* getNextOffset: the next offset, or err when both sides are out of range.
getNextOffset(msb, prevOffset) ==
    LET next == IF prevOffset <= 0 THEN prevOffset * (-1) + 1 ELSE prevOffset * (-1) IN
    IF msb + next > 159 /\ msb + (next * (-1)) >= 0
        THEN [offset |-> next * (-1), err |-> FALSE]
    ELSE IF msb + next < 0 /\ msb + (next * (-1) + 1) < 160
        THEN [offset |-> next * (-1) + 1, err |-> FALSE]
    ELSE IF \/ (msb + next > 159 /\ msb + (next * (-1)) < 0)
            \/ (msb + next < 0 /\ msb + (next * (-1) + 1) >= 160)
        THEN [offset |-> 0, err |-> TRUE]
    ELSE [offset |-> next, err |-> FALSE]

\* The orders sort.Slice may leave a copy of a bucket in, under the less
\* function of findNearestNode: ns[i].dAddr.xor(target) <= ns[j].dAddr.xor(target).
\* An entry may be placed first when it is less than every entry.
RECURSIVE sortByDistance(_, _)
sortByDistance(ns, targetAddr) ==
    IF ns = <<>> THEN {<<>>}
    ELSE UNION {
        {<<ns[i]>> \o r : r \in sortByDistance(RemoveAt(ns, i), targetAddr)} :
        i \in {i \in 1..Len(ns) : \A j \in 1..Len(ns) :
                  lessThanEqual(xor(ns[i].dAddr, targetAddr),
                                xor(ns[j].dAddr, targetAddr))}}

\* The doogle.NodeInfo message of a nodeInfo.
NodeInfoMsg(ni) == [DoogleAddress |-> ni.dAddr, NetworkAddress |-> ni.nAddr]

\* The first alpha entries of the bucket, unsorted.
nearestOfBucket_unsorted(rb, targetAddr) ==
    {[i \in 1..(IF Len(rb) < alpha THEN Len(rb) ELSE alpha) |-> NodeInfoMsg(rb[i])]}

\* Node.findNearestNode on a non-empty bucket: the replies it may return.
nearestOfBucket(rb, targetAddr) ==
    IF Len(rb) < alpha
    THEN {[i \in 1..Len(rb) |-> NodeInfoMsg(rb[i])]}
    ELSE {[i \in 1..alpha |-> NodeInfoMsg(ns[i])] : ns \in sortByDistance(rb, targetAddr)}

\* Node.findNearestNode, one level of its recursion at the given offset: on
\* an empty bucket it goes on to the next offset ("walking") or, when
\* getNextOffset fails, returns nil ("empty"); on a non-empty bucket it
\* returns from that bucket ("found"); it panics when the table has no
\* bucket on msb+offset.
findNearestStep(rt, msb, st) ==
    IF st.state # "walking" THEN st
    ELSE IF msb + st.offset \notin DOMAIN rt THEN [st EXCEPT !.state = "panic"]
    ELSE IF Len(rt[msb + st.offset]) = 0
    THEN LET n == getNextOffset(msb, st.offset) IN
         IF n.err THEN [st EXCEPT !.state = "empty"]
         ELSE [st EXCEPT !.offset = n.offset]
    ELSE [st EXCEPT !.state = "found"]

\* 2^n levels of the recursion (a call that has returned stays returned).
RECURSIVE findNearestLevels(_, _, _, _)
findNearestLevels(rt, msb, st, n) ==
    IF n = 0 THEN findNearestStep(rt, msb, st)
    ELSE LET half == findNearestLevels(rt, msb, st, n - 1)
         IN IF half.state # "walking" THEN half
            ELSE findNearestLevels(rt, msb, half, n - 1)

\* Node.findNearestNode: the set of replies it may return; a panic is the
\* reply <<"panic">>. The recursion ends within addressBits + 1 <= 2^8 levels.
findNearestNode(rt, targetAddr, msb, offset) ==
    LET end == findNearestLevels(rt, msb, [state |-> "walking", offset |-> offset], 8) IN
    IF end.state = "found" THEN nearestOfBucket(rt[msb + end.offset], targetAddr)
    ELSE IF end.state = "empty" THEN {<<>>}
    ELSE {<<"panic">>}

\* Node.findNode: err for a collision, else the replies of findNearestNode.
findNode(rt, targetAddr) ==
    LET msb == getMostSignificantBit(xor(DAddr, targetAddr)) IN
    IF msb < 0 THEN [err |-> TRUE, rets |-> {<<>>}]
    ELSE [err |-> FALSE, rets |-> findNearestNode(rt, targetAddr, msb, 0)]

(***************************************************************************)
(* Construction.                                                           *)
(***************************************************************************)
NoReply == [rpc |-> "none", caller |-> [cert |-> <<>>, own |-> FALSE],
            code |-> "OK", infos |-> <<>>, items |-> <<>>, message |-> "",
            req |-> <<>>, prev |-> <<>>]

\* No address is being derived.
NoPuzzle == [pc |-> "idle", nAddr |-> 0, pk |-> 0, difficulty |-> 0, nonce |-> 0,
             addr |-> {}, checked |-> <<>>, ok |-> FALSE]

\* An empty connection cache; no call of getConnByNetworkAddress in progress.
NoConns == [cache |-> <<>>,
            tasks |-> [t \in 1..NumThreads |-> [pc |-> "idle", nAddr |-> 0, conn |-> 0]],
            handedOut |-> {}, closed |-> {}, down |-> FALSE]

\* No call of PostUrl in progress.
\* log and posted are history: what was done for each token of the call, and
\* the (url, token) pairs of the calls that have returned.
NoPost == [pc |-> "idle", url |-> 0, title |-> "", edgeURLs |-> <<>>, tokens |-> <<>>,
           k |-> 1, rep |-> <<>>, tasks |-> <<>>, log |-> <<>>, posted |-> {}]

NoCall == [pc |-> "idle", in |-> [cert |-> <<>>, own |-> FALSE], index |-> "",
           it |-> <<>>, edgeURLs |-> <<>>]

NoWalk == [state |-> "idle", msb |-> 0, offset |-> 0, visited |-> <<>>, ret |-> <<>>,
           target |-> {}]

NoQuery == [pc |-> "idle", who |-> [cert |-> <<>>, own |-> FALSE], target |-> {},
            ret |-> <<>>, scoreMap |-> <<>>, nas |-> <<>>,
            res |-> [kind |-> "none", infos |-> <<>>, items |-> <<>>], tasks |-> <<>>,
            merged |-> <<>>, called |-> <<>>, answered |-> <<>>, posted |-> {}]

\* newNodeAddress: a nonce whose digest has `difficulty` leading zero bits.
newNodeAddress(nAddr, pk, d) ==
    {[addr |-> powHash(nAddr, pk, k), nonce |-> k] :
        k \in {k \in 1..2 : leadingZeroBits(powHash(nAddr, pk, k), d)}}

\* NewNode: an empty bucket on every bit index, the puzzle solved.
Init ==
    /\ difficulty \in 0..MaxDifficulty
    /\ \E a \in newNodeAddress(0, 0, difficulty) : DAddr = a.addr /\ nonce = a.nonce
    /\ routingTable = [i \in 0..(addressBits - 1) |-> <<>>]
    /\ lastUpdate = NoUpdate
    /\ reply = NoReply
    /\ walk = NoWalk
    /\ dht = <<>>
    /\ items = <<>>
    /\ crawls = <<>>
    /\ query = NoQuery
    /\ calls = [t \in 1..NumThreads |-> NoCall]
    /\ dhtMux = <<>>
    /\ storeLog = [requested |-> {}, returned |-> {}]
    /\ puzzle = NoPuzzle
    /\ conns = NoConns
    /\ post = NoPost

\* The node whose nonce search ended on its first nonce.
InitRouting == Init /\ nonce = 1

(***************************************************************************)
(* The callers of the model.                                               *)
(***************************************************************************)
\* The certificate host h obtains by solving its puzzle, declared with difficulty d.
HostCert(h, d) ==
    [networkAddress |-> h, doogleAddress |-> powHash(h, h, 1), addrLen |-> addressLength,
     publicKey |-> h, nonce |-> 1, difficulty |-> d]

\* The callers of a lookup: the node itself, one host that verifies and one
\* certificate that does not.
LookupCallers ==
    {[cert |-> certificate, own |-> TRUE], [cert |-> HostCert(2, 0), own |-> FALSE],
     [cert |-> [HostCert(1, MaxDifficulty) EXCEPT !.nonce = 2], own |-> FALSE]}

\* Lookup targets: the node's own address (a collision) and two addresses,
\* each in or next to a distance class that holds hosts.
Targets == {DAddr, {159, 1}, {158}}

(***************************************************************************)
(* RPC handlers.                                                           *)
(***************************************************************************)
\* Node.Ping
Ping ==
    /\ reply' = [NoReply EXCEPT !.rpc = "Ping", !.message = "pong"]
    /\ lastUpdate' = NoUpdate
    /\ UNCHANGED <<identity, outbound, storing, routingTable, walk, store, query>>

\* Node.PingWithCertificate
PingWithCertificate(in) ==
    /\ routingTable' = admitRoutingTable(routingTable, in.cert, in.own)
    /\ lastUpdate' = admitUpdate(routingTable, in.cert, in.own)
    /\ reply' = [NoReply EXCEPT !.rpc = "PingWithCertificate", !.caller = in,
                    !.code = IF isValidSender(in.cert, in.own)
                             THEN "OK" ELSE "InvalidArgument"]
    /\ UNCHANGED <<identity, outbound, storing, walk, store, query>>

\* Node.FindNode
FindNode(in, targetAddr) ==
    /\ routingTable' = admitRoutingTable(routingTable, in.cert, in.own)
    /\ lastUpdate' = admitUpdate(routingTable, in.cert, in.own)
    /\ IF ~isValidSender(in.cert, in.own)
       THEN reply' = [NoReply EXCEPT !.rpc = "FindNode", !.caller = in,
                         !.code = "InvalidArgument"]
       ELSE LET r == findNode(routingTable', targetAddr) IN
            \E ret \in r.rets :
                reply' = [NoReply EXCEPT !.rpc = "FindNode", !.caller = in,
                             !.code = IF r.err THEN "Internal" ELSE "OK",
                             !.infos = ret, !.message = targetAddr]
    /\ UNCHANGED <<identity, outbound, storing, walk, store, query>>

\* The callers that exercise the routing table: every host with its solved
\* certificate, a copy of the node's own certificate, one that does not verify.
RoutingCallers ==
    {[cert |-> c, own |-> FALSE] :
        c \in {HostCert(h, 0) : h \in 1..NumHosts}
                \cup {certificate, [HostCert(2, 0) EXCEPT !.doogleAddress = {159, 7}]}}

(***************************************************************************)
(* DHT store.                                                              *)
(***************************************************************************)
\* The item StoreItem builds from a request.
newItem(url, title, edgeURLs) ==
    [dAddrStr |-> sha1Url(url), url |-> url, title |-> title,
     edges |-> [i \in 1..Len(edgeURLs) |-> sha1Url(edgeURLs[i])], localRank |-> 0]

\* dht.LoadOrStore(idxAddr, empty dhtValue)
dhtLoadOrStore(d, idxAddr) ==
    IF idxAddr \in DOMAIN d THEN d ELSE d @@ (idxAddr :> <<>>)

\* The item address is appended whether or not the entry lists it.
appendItemAddress_noCheck(d, idxAddr, itemAddr) ==
    [d EXCEPT ![idxAddr] = Append(@, itemAddr)]

\* StoreItem under dhtV.mux: append the item address unless included.
appendItemAddress(d, idxAddr, itemAddr) ==
    IF \E k \in 1..Len(d[idxAddr]) : d[idxAddr][k] = itemAddr
    THEN d
    ELSE [d EXCEPT ![idxAddr] = Append(@, itemAddr)]

\* The item is not registered.
registerItem_dropped(its, it) == its

\* The overwrite keeps the rank of the new item (zero).
registerItem_rankReset(its, it) ==
    IF it.dAddrStr \in DOMAIN its
    THEN [its EXCEPT ![it.dAddrStr] = it]
    ELSE its @@ (it.dAddrStr :> it)

\* items.LoadOrStore, and on a loaded record the copy of its rank and items.Store.
registerItem(its, it) ==
    IF it.dAddrStr \in DOMAIN its
    THEN [its EXCEPT ![it.dAddrStr] = [it EXCEPT !.localRank = its[it.dAddrStr].localRank]]
    ELSE its @@ (it.dAddrStr :> it)

\* The doogle.Item message of an item.
ItemMsg(it) == [Url |-> it.url, LocalRank |-> it.localRank, Title |-> it.title]

\* The items of an index entry that are registered, in the entry's order.
RECURSIVE materialize(_, _)
materialize(its, as) ==
    IF as = <<>> THEN <<>>
    ELSE (IF Head(as) \in DOMAIN its THEN <<ItemMsg(its[Head(as)])>> ELSE <<>>)
             \o materialize(its, Tail(as))

\* Node.findIndex: the replies it may return.
findIndex(d, its, rt, dAddrStr) ==
    IF dAddrStr \notin DOMAIN d
    THEN LET r == findNode(rt, dAddrStr) IN
         {[kind |-> IF r.err THEN "err" ELSE "NodeInfos", infos |-> ret, items |-> <<>>] :
             ret \in r.rets}
    ELSE {[kind |-> "Items", infos |-> <<>>, items |-> materialize(its, d[dAddrStr])]}

\* Node.StoreItem
StoreItem(in, url, title, index, edgeURLs) ==
    /\ routingTable' = admitRoutingTable(routingTable, in.cert, in.own)
    /\ lastUpdate' = admitUpdate(routingTable, in.cert, in.own)
    /\ IF ~isValidSender(in.cert, in.own)
       THEN /\ reply' = [NoReply EXCEPT !.rpc = "StoreItem", !.caller = in,
                            !.code = "InvalidArgument"]
            /\ UNCHANGED store
       ELSE LET it == newItem(url, title, edgeURLs) IN
            /\ sha1Token(index) \notin DOMAIN dhtMux
            /\ dht' = appendItemAddress(dhtLoadOrStore(dht, sha1Token(index)),
                                        sha1Token(index), it.dAddrStr)
            /\ items' = registerItem(items, it)
            /\ crawls' = IF it.dAddrStr \in DOMAIN items THEN crawls
                         ELSE Append(crawls, edgeURLs)
            /\ storeLog' = [requested |-> storeLog.requested
                                            \cup {<<sha1Token(index), it.dAddrStr>>},
                            returned |-> storeLog.returned
                                            \cup {<<sha1Token(index), it.dAddrStr>>}]
            /\ reply' = [NoReply EXCEPT !.rpc = "StoreItem", !.caller = in,
                            !.message = index, !.req = it,
                            !.prev = IF it.dAddrStr \in DOMAIN items
                                     THEN items[it.dAddrStr] ELSE <<>>]
    /\ UNCHANGED <<identity, outbound, storing, walk, query>>

(***************************************************************************)
(* StoreItem, statement by statement, on a thread t.                       *)
(***************************************************************************)
\* The index address and the item address of the call of thread t.
idxAddrOf(t) == sha1Token(calls[t].index)
itemAddrOf(t) == calls[t].it.dAddrStr

\* Lines 301-325: the sender is checked; the item is built.
StoreItemCall(t, in, url, title, index, edgeURLs) ==
    /\ calls[t].pc = "idle"
    /\ routingTable' = admitRoutingTable(routingTable, in.cert, in.own)
    /\ lastUpdate' = admitUpdate(routingTable, in.cert, in.own)
    /\ IF ~isValidSender(in.cert, in.own)
       THEN /\ reply' = [NoReply EXCEPT !.rpc = "StoreItem", !.caller = in,
                            !.code = "InvalidArgument"]
            /\ UNCHANGED <<calls, storeLog>>
       ELSE LET it == newItem(url, title, edgeURLs) IN
            /\ calls' = [calls EXCEPT ![t] = [pc |-> "loadIndex", in |-> in,
                                              index |-> index, it |-> it,
                                              edgeURLs |-> edgeURLs]]
            /\ storeLog' = [storeLog EXCEPT !.requested =
                                @ \cup {<<sha1Token(index), it.dAddrStr>>}]
            /\ reply' = [NoReply EXCEPT !.rpc = "StoreItem:call", !.caller = in]
    /\ UNCHANGED <<identity, outbound, walk, dht, items, crawls, dhtMux, query>>

\* Lines 328-331: dht.LoadOrStore.
StoreItemLoadIndex(t) ==
    /\ calls[t].pc = "loadIndex"
    /\ dht' = dhtLoadOrStore(dht, idxAddrOf(t))
    /\ calls' = [calls EXCEPT ![t].pc = "lock"]
    /\ lastUpdate' = NoUpdate
    /\ UNCHANGED <<identity, outbound, routingTable, reply, walk, items, crawls, storeLog,
                   dhtMux, query>>

\* Line 338: dhtV.mux.Lock().
StoreItemLock(t) ==
    /\ calls[t].pc = "lock"
    /\ idxAddrOf(t) \notin DOMAIN dhtMux
    /\ dhtMux' = dhtMux @@ (idxAddrOf(t) :> t)
    /\ calls' = [calls EXCEPT ![t].pc = "append"]
    /\ lastUpdate' = NoUpdate
    /\ UNCHANGED <<identity, outbound, routingTable, reply, walk, store, query>>

\* Lines 341-350: the scan of the entry and the append.
StoreItemAppend(t) ==
    /\ calls[t].pc = "append"
    /\ dht' = appendItemAddress(dht, idxAddrOf(t), itemAddrOf(t))
    /\ calls' = [calls EXCEPT ![t].pc = "register"]
    /\ lastUpdate' = NoUpdate
    /\ UNCHANGED <<identity, outbound, routingTable, reply, walk, items, crawls, storeLog,
                   dhtMux, query>>

\* The edges are crawled on a loaded record as well.
StoreItemRegister_alwaysCrawl(t) ==
    /\ calls[t].pc = "register"
    /\ IF itemAddrOf(t) \in DOMAIN items
       THEN /\ calls' = [calls EXCEPT ![t].pc = "store",
                            ![t].it.localRank = items[itemAddrOf(t)].localRank]
            /\ UNCHANGED items
       ELSE /\ items' = items @@ (itemAddrOf(t) :> calls[t].it)
            /\ calls' = [calls EXCEPT ![t].pc = "return"]
    /\ crawls' = Append(crawls, calls[t].edgeURLs)
    /\ lastUpdate' = NoUpdate
    /\ UNCHANGED <<identity, outbound, routingTable, reply, walk, dht, storeLog, dhtMux, query>>

\* Lines 352-354 and 357-359: items.LoadOrStore; on a loaded record the copy
\* of its rank, on a stored one the crawl of the edges.
StoreItemRegister(t) ==
    /\ calls[t].pc = "register"
    /\ IF itemAddrOf(t) \in DOMAIN items
       THEN /\ calls' = [calls EXCEPT ![t].pc = "store",
                            ![t].it.localRank = items[itemAddrOf(t)].localRank]
            /\ UNCHANGED <<items, crawls>>
       ELSE /\ items' = items @@ (itemAddrOf(t) :> calls[t].it)
            /\ crawls' = Append(crawls, calls[t].edgeURLs)
            /\ calls' = [calls EXCEPT ![t].pc = "return"]
    /\ lastUpdate' = NoUpdate
    /\ UNCHANGED <<identity, outbound, routingTable, reply, walk, dht, storeLog, dhtMux, query>>

\* Line 355: items.Store.
StoreItemStore(t) ==
    /\ calls[t].pc = "store"
    /\ items' = [items EXCEPT ![itemAddrOf(t)] = calls[t].it]
    /\ calls' = [calls EXCEPT ![t].pc = "return"]
    /\ reply' = [NoReply EXCEPT !.rpc = "StoreItem:store", !.caller = calls[t].in,
                    !.message = calls[t].index, !.req = calls[t].it,
                    !.prev = items[itemAddrOf(t)]]
    /\ lastUpdate' = NoUpdate
    /\ UNCHANGED <<identity, outbound, routingTable, walk, dht, crawls, storeLog, dhtMux, query>>

\* Line 361 and the deferred dhtV.mux.Unlock().
StoreItemReturn(t) ==
    /\ calls[t].pc = "return"
    /\ dhtMux' = [a \in DOMAIN dhtMux \ {idxAddrOf(t)} |-> dhtMux[a]]
    /\ storeLog' = [storeLog EXCEPT !.returned = @ \cup {<<idxAddrOf(t), itemAddrOf(t)>>}]
    /\ reply' = [NoReply EXCEPT !.rpc = "StoreItem", !.caller = calls[t].in,
                    !.message = calls[t].index]
    /\ calls' = [calls EXCEPT ![t] = NoCall]
    /\ lastUpdate' = NoUpdate
    /\ UNCHANGED <<identity, outbound, routingTable, walk, dht, items, crawls, query>>

\* Node.FindIndex
FindIndex(in, dAddrStr) ==
    /\ routingTable' = admitRoutingTable(routingTable, in.cert, in.own)
    /\ lastUpdate' = admitUpdate(routingTable, in.cert, in.own)
    /\ IF ~isValidSender(in.cert, in.own)
       THEN reply' = [NoReply EXCEPT !.rpc = "FindIndex", !.caller = in,
                         !.code = "InvalidArgument"]
       ELSE \E r \in findIndex(dht, items, routingTable', dAddrStr) :
                reply' = [NoReply EXCEPT !.rpc = "FindIndex", !.caller = in,
                             !.code = IF r.kind = "err" THEN "Internal" ELSE "OK",
                             !.infos = r.infos, !.items = r.items, !.message = dAddrStr]
    /\ UNCHANGED <<identity, outbound, storing, walk, store, query>>

\* Node.PingTo: the named peer is dialled and pinged with the node's
\* certificate; the dial or the ping fails, or the certificate r comes back.
PingTo(who, failed, r) ==
    /\ IF failed
       THEN /\ reply' = [NoReply EXCEPT !.rpc = "PingTo", !.caller = who, !.code = "Internal"]
            /\ lastUpdate' = NoUpdate
            /\ UNCHANGED routingTable
       ELSE /\ routingTable' = admitRoutingTable(routingTable, r, FALSE)
            /\ lastUpdate' = admitUpdate(routingTable, r, FALSE)
            /\ reply' = IF isValidSender(r, FALSE)
                        THEN [NoReply EXCEPT !.rpc = "PingTo", !.caller = who,
                                             !.message = "pong"]
                        ELSE [NoReply EXCEPT !.rpc = "PingTo", !.caller = who,
                                             !.code = "Internal"]
    /\ UNCHANGED <<identity, outbound, storing, walk, store, query>>

\* The PageRank loop stores a locally computed rank in a registered item.
ComputePageRank(itemAddr, rank) ==
    /\ itemAddr \in DOMAIN items
    /\ items[itemAddr].localRank # rank
    /\ items' = [items EXCEPT ![itemAddr].localRank = rank]
    /\ reply' = [NoReply EXCEPT !.rpc = "ComputePageRank"]
    /\ lastUpdate' = NoUpdate
    /\ UNCHANGED <<identity, outbound, storing, routingTable, walk, dht, crawls, storeLog, query>>

(***************************************************************************)
(* Query engine.                                                           *)
(***************************************************************************)
\* A bag of items: item -> number of occurrences.
bagAdd(b, x) == IF x \in DOMAIN b THEN [b EXCEPT ![x] = @ + 1] ELSE b @@ (x :> 1)

RECURSIVE bagAddAll(_, _)
bagAddAll(b, its) == IF its = <<>> THEN b ELSE bagAddAll(bagAdd(b, Head(its)), Tail(its))

RECURSIVE bagOf(_)
bagOf(its) == IF its = <<>> THEN <<>> ELSE bagAdd(bagOf(Tail(its)), Head(its))

\* The sum of the ranks is not accumulated.
mergeItem_sumNotAdded(acc, it) ==
    IF it.Url \in DOMAIN acc.scoreMap
    THEN [acc EXCEPT !.scoreMap[it.Url] = [num |-> @.num + 1, sum |-> @.sum]]
    ELSE [ret |-> Append(acc.ret, it),
          scoreMap |-> acc.scoreMap @@ (it.Url :> [num |-> 1, sum |-> it.LocalRank])]

\* GetIndex merges one item into the result list and the score map.
mergeItem(acc, it) ==
    IF it.Url \in DOMAIN acc.scoreMap
    THEN [acc EXCEPT !.scoreMap[it.Url] =
                        [num |-> @.num + 1, sum |-> @.sum + it.LocalRank]]
    ELSE [ret |-> Append(acc.ret, it),
          scoreMap |-> acc.scoreMap @@ (it.Url :> [num |-> 1, sum |-> it.LocalRank])]

RECURSIVE mergeItems(_, _)
mergeItems(acc, its) ==
    IF its = <<>> THEN acc ELSE mergeItems(mergeItem(acc, Head(its)), Tail(its))

\* The less function of GetIndex's sort: avg of url a > avg of url b, where
\* avg = sum / num (num > 0), compared without rounding.
avgGreater(sm, a, b) == sm[a].sum * sm[b].num > sm[b].sum * sm[a].num

\* The positions whose item no other item is to be placed before.
firstCandidates(ret, sm) ==
    {i \in 1..Len(ret) : \A j \in 1..Len(ret) : ~avgGreater(sm, ret[j].Url, ret[i].Url)}

\* Every order of the list in which no item follows one it is to precede.
RECURSIVE sortedOrders(_, _)
sortedOrders(ret, sm) ==
    IF ret = <<>> THEN {<<>>}
    ELSE UNION {{<<ret[i]>> \o r : r \in sortedOrders(RemoveAt(ret, i), sm)} :
                    i \in firstCandidates(ret, sm)}

\* The order an insertion sort leaves: among equals the earlier stays first.
RECURSIVE insertionSorted(_, _)
insertionSorted(ret, sm) ==
    IF ret = <<>> THEN <<>>
    ELSE LET i == CHOOSE i \in firstCandidates(ret, sm) :
                      \A k \in firstCandidates(ret, sm) : i <= k
         IN <<ret[i]>> \o insertionSorted(RemoveAt(ret, i), sm)

\* sort.Slice(ret, avg(i) > avg(j)): the orders it may leave. sort.Slice is
\* not a stable sort; every release of the library sorts a slice of up to 6
\* elements by insertion, longer ones by an unstable method.
sortSliceByAvg(ret, sm) ==
    IF Len(ret) <= 6 THEN {insertionSorted(ret, sm)} ELSE sortedOrders(ret, sm)

\* The fan-out task of GetIndex, as spawned.
NewTask == [pc |-> "start", its |-> <<>>, infos |-> <<>>, k |-> 1]

\* Node.GetIndex up to the fan-out: the local findIndex seeds the result,
\* the network addresses of the nearest nodes are collected, one task is
\* spawned for each.
GetIndexBegin(who, keyword) ==
    /\ query.pc = "idle"
    /\ LET targetAddr == sha1Token(keyword) IN
       \E res \in findIndex(dht, items, routingTable, targetAddr) :
         IF res.kind = "err"
         THEN /\ reply' = [NoReply EXCEPT !.rpc = "GetIndex", !.caller = who,
                              !.code = "Internal"]
              /\ UNCHANGED query
         ELSE IF res.kind = "Items"
         THEN LET seeded == mergeItems([ret |-> <<>>, scoreMap |-> <<>>], res.items)
                  near == findNode(routingTable, targetAddr)
              IN IF near.err
                 THEN /\ reply' = [NoReply EXCEPT !.rpc = "GetIndex", !.caller = who,
                                      !.code = "Internal"]
                      /\ UNCHANGED query
                 ELSE \E infos \in near.rets :
                      /\ query' = [pc |-> "fanout", who |-> who, target |-> targetAddr,
                                   ret |-> seeded.ret, scoreMap |-> seeded.scoreMap,
                                   nas |-> [i \in 1..Len(infos) |-> infos[i].NetworkAddress],
                                   res |-> res,
                                   tasks |-> [i \in 1..Len(infos) |-> NewTask],
                                   merged |-> bagOf(res.items),
                                   called |-> <<>>, answered |-> bagOf(res.items),
                                   posted |-> post.posted]
                      /\ reply' = [NoReply EXCEPT !.rpc = "GetIndex:call", !.caller = who]
         ELSE /\ query' = [pc |-> "fanout", who |-> who, target |-> targetAddr,
                           ret |-> <<>>, scoreMap |-> <<>>,
                           nas |-> [i \in 1..Len(res.infos) |-> res.infos[i].NetworkAddress],
                           res |-> res,
                           tasks |-> [i \in 1..Len(res.infos) |-> NewTask],
                           merged |-> <<>>, called |-> <<>>, answered |-> <<>>,
                           posted |-> post.posted]
              /\ reply' = [NoReply EXCEPT !.rpc = "GetIndex:call", !.caller = who]
    /\ lastUpdate' = NoUpdate
    /\ UNCHANGED <<identity, outbound, storing, routingTable, walk, store>>

\* Task i dials the network address it reads from the loop variable nAddr
\* (shared by the tasks: it holds the address of task i or of a later one)
\* and calls FindIndex there; the reply is assigned to the variable res that
\* all tasks and GetIndex share. A failed dial or call ends the task.
TaskFindIndex(i, nAddr, failed, r) ==
    /\ query.pc = "fanout"
    /\ i \in DOMAIN query.tasks /\ query.tasks[i].pc = "start"
    /\ \E j \in i..Len(query.nas) : nAddr = query.nas[j]
    /\ query' = IF failed
                THEN [query EXCEPT !.tasks[i].pc = "done", !.called = bagAdd(@, nAddr)]
                ELSE [query EXCEPT !.tasks[i].pc = "called", !.res = r,
                                   !.called = bagAdd(@, nAddr),
                                   !.answered = bagAddAll(@, r.items)]
    /\ reply' = [NoReply EXCEPT !.rpc = "GetIndex:FindIndex", !.message = nAddr]
    /\ lastUpdate' = NoUpdate
    /\ UNCHANGED <<identity, outbound, storing, routingTable, walk, store>>

\* Task i tests whether res holds items (line 598).
TaskReadItems(i) ==
    /\ query.pc = "fanout"
    /\ i \in DOMAIN query.tasks /\ query.tasks[i].pc = "called"
    /\ query' = IF query.res.kind = "Items"
                THEN [query EXCEPT !.tasks[i].pc = IF query.res.items = <<>>
                                                   THEN "done" ELSE "merging",
                                   !.tasks[i].its = query.res.items]
                ELSE [query EXCEPT !.tasks[i].pc = "notItems"]
    /\ reply' = [NoReply EXCEPT !.rpc = "GetIndex:read"]
    /\ lastUpdate' = NoUpdate
    /\ UNCHANGED <<identity, outbound, storing, routingTable, walk, store>>

\* Task i reads res again as node infos (line 616); when res holds items by
\* now, the conversion yields nil and its dereference panics.
TaskReadNodeInfos(i) ==
    /\ query.pc = "fanout"
    /\ i \in DOMAIN query.tasks /\ query.tasks[i].pc = "notItems"
    /\ query' = IF query.res.kind = "NodeInfos"
                THEN [query EXCEPT !.tasks[i].pc = IF query.res.infos = <<>>
                                                   THEN "done" ELSE "warmup",
                                   !.tasks[i].infos = query.res.infos]
                ELSE [query EXCEPT !.pc = "panic"]
    /\ reply' = [NoReply EXCEPT !.rpc = "GetIndex:read"]
    /\ lastUpdate' = NoUpdate
    /\ UNCHANGED <<identity, outbound, storing, routingTable, walk, store>>

\* Task i merges its next item under the mutex.
TaskMergeItem(i) ==
    /\ query.pc = "fanout"
    /\ i \in DOMAIN query.tasks /\ query.tasks[i].pc = "merging"
    /\ LET t == query.tasks[i]
           merged == mergeItem([ret |-> query.ret, scoreMap |-> query.scoreMap], t.its[t.k])
       IN query' = [query EXCEPT !.ret = merged.ret, !.scoreMap = merged.scoreMap,
                                 !.merged = bagAdd(@, t.its[t.k]),
                                 !.tasks[i].k = t.k + 1,
                                 !.tasks[i].pc = IF t.k = Len(t.its) THEN "done" ELSE "merging"]
    /\ reply' = [NoReply EXCEPT !.rpc = "GetIndex:merge"]
    /\ lastUpdate' = NoUpdate
    /\ UNCHANGED <<identity, outbound, storing, routingTable, walk, store>>

\* Task i pings the next node a peer suggested with the node's certificate
\* and admits the certificate that comes back; a failure ends the task.
TaskWarmup(i, failed, r) ==
    /\ query.pc = "fanout"
    /\ i \in DOMAIN query.tasks /\ query.tasks[i].pc = "warmup"
    /\ LET t == query.tasks[i] IN
       IF failed
       THEN /\ query' = [query EXCEPT !.tasks[i].pc = "done"]
            /\ lastUpdate' = NoUpdate
            /\ UNCHANGED routingTable
       ELSE /\ query' = [query EXCEPT !.tasks[i].k = t.k + 1,
                            !.tasks[i].pc = IF t.k = Len(t.infos) THEN "done" ELSE "warmup"]
            /\ routingTable' = admitRoutingTable(routingTable, r, FALSE)
            /\ lastUpdate' = admitUpdate(routingTable, r, FALSE)
    /\ reply' = [NoReply EXCEPT !.rpc = "GetIndex:warmup"]
    /\ UNCHANGED <<identity, outbound, storing, walk, store>>

\* Node.GetIndex after wg.Wait(): the averages, the sort, the reply.
GetIndexReturn ==
    /\ query.pc = "fanout"
    /\ \A i \in DOMAIN query.tasks : query.tasks[i].pc = "done"
    /\ \E sorted \in sortSliceByAvg(query.ret, query.scoreMap) :
          reply' = [NoReply EXCEPT !.rpc = "GetIndex", !.caller = query.who,
                                   !.items = sorted, !.message = query.target]
    /\ query' = [NoQuery EXCEPT !.ret = query.ret, !.scoreMap = query.scoreMap,
                                !.merged = query.merged, !.nas = query.nas,
                                !.called = query.called, !.answered = query.answered,
                                !.posted = query.posted]
    /\ lastUpdate' = NoUpdate
    /\ UNCHANGED <<identity, outbound, storing, routingTable, walk, store>>

(***************************************************************************)
(* findNearestNode, level by level.                                        *)
(***************************************************************************)
\* Node.findNode calls findNearestNode(targetAddr, msb, 0).
FindNodeCall(targetAddr) ==
    /\ walk.state # "walking"
    /\ getMostSignificantBit(xor(DAddr, targetAddr)) >= 0
    /\ walk' = [state |-> "walking", msb |-> getMostSignificantBit(xor(DAddr, targetAddr)),
                offset |-> 0, visited |-> <<>>, ret |-> <<>>, target |-> targetAddr]
    /\ UNCHANGED <<identity, outbound, storing, routing, reply, store, query>>

\* One level of findNearestNode: it reads the bucket on msb+offset.
FindNearestLevel ==
    /\ walk.state = "walking"
    /\ LET st == findNearestStep(routingTable, walk.msb,
                                 [state |-> "walking", offset |-> walk.offset])
       IN \E ret \in IF st.state = "found"
                      THEN nearestOfBucket(routingTable[walk.msb + st.offset], walk.target)
                      ELSE {<<>>} :
            walk' = [walk EXCEPT !.state = st.state, !.offset = st.offset, !.ret = ret,
                                 !.visited = Append(@, walk.msb + walk.offset)]
    /\ UNCHANGED <<identity, outbound, storing, routing, reply, store, query>>

\* A target for every distance class of the node.
WalkTargets == {xor(DAddr, {m}) : m \in 0..(addressBits - 1)}

NextWalk ==
    \/ \E t \in WalkTargets : FindNodeCall(t)
    \/ FindNearestLevel

SpecWalk == Init /\ [][NextWalk]_vars

(***************************************************************************)
(* The query engine with two peers and a small local index.                *)
(***************************************************************************)
\* What a remote peer may answer to FindIndex: a list of items, or the
\* nodes it suggests.
RemoteItem(u, rank) == [Url |-> u, LocalRank |-> rank, Title |-> "remote"]

\* One more item than maxNumGetItem, all ranks different but for two.
ManyItems ==
    [u \in 1..(maxNumGetItem + 1) |-> RemoteItem(u, IF u = 2 THEN 1 ELSE u)]

RemoteReplies ==
    {[kind |-> "Items", infos |-> <<>>, items |-> its] :
        its \in {<<RemoteItem(1, 2)>>, <<RemoteItem(3, 1), RemoteItem(1, 0)>>, ManyItems}}
      \cup {[kind |-> "NodeInfos", items |-> <<>>,
              infos |-> <<NodeInfoMsg(nodeInfoOf(HostCert(4, 0)))>>]}

\* The local index: two urls under the token "a", ranked by the PageRank loop.
QueryCallers == {[cert |-> HostCert(1, 0), own |-> FALSE]}

\* The index and the routing table are filled before the one query starts:
\* host 2 then host 3 ping, url 1 then url 2 are stored, ranks are computed.
QuerySetup ==
    /\ query.pc = "idle" /\ query.ret = <<>> /\ reply.rpc # "GetIndex"
    /\ \/ \E h \in 2..3 :
            /\ h = 2 \/ Len(routingTable[159]) > 0
            /\ PingWithCertificate([cert |-> HostCert(h, 0), own |-> FALSE])
       \/ \E u \in 1..2 :
            /\ u = 1 \/ sha1Url(1) \in DOMAIN items
            /\ StoreItem([cert |-> certificate, own |-> TRUE], u, "local", "a", <<>>)
       \/ \E u \in 1..2 : ComputePageRank(sha1Url(u), 1)

NextQuery ==
    \/ QuerySetup
    \/ \E who \in QueryCallers :
          query.ret = <<>> /\ reply.rpc # "GetIndex" /\ GetIndexBegin(who, "a")
    \/ \E i \in 1..alpha, h \in 1..NumHosts :
          \/ TaskFindIndex(i, h, TRUE, query.res)
          \/ \E r \in RemoteReplies : TaskFindIndex(i, h, FALSE, r)
    \/ \E i \in 1..alpha : TaskReadItems(i)
    \/ \E i \in 1..alpha : TaskReadNodeInfos(i)
    \/ \E i \in 1..alpha : TaskMergeItem(i)
    \/ \E i \in 1..alpha :
          \/ TaskWarmup(i, TRUE, certificate)
          \/ TaskWarmup(i, FALSE, HostCert(4, 0))
    \/ GetIndexReturn

InitQuery == InitRouting /\ difficulty = 0

SpecQuery == InitQuery /\ [][NextQuery]_vars

NextRouting ==
    \/ \E in \in RoutingCallers : PingWithCertificate(in)
    \/ \E in \in LookupCallers, t \in Targets : (in.own \/ t = {159, 1}) /\ FindNode(in, t)

SpecRouting == InitRouting /\ [][NextRouting]_vars

(***************************************************************************)
(* Properties of the routing table.                                        *)
(***************************************************************************)
\* C2: every peer stored in bucket i has msb(DAddr xor peer address) = i,
\* and the node's own address is in no bucket.
BucketHoldsItsDistanceClass ==
    \A i \in DOMAIN routingTable : \A k \in 1..Len(routingTable[i]) :
        /\ getMostSignificantBit(xor(DAddr, routingTable[i][k].dAddr)) = i
        /\ routingTable[i][k].dAddr # DAddr

\* C2 witness: peers sit in two different buckets, and a caller presenting
\* the node's own address has been through updateRoutingTable.
WitnessTwoBucketsAndCollision ==
    /\ \E i, j \in DOMAIN routingTable :
          i # j /\ Len(routingTable[i]) > 0 /\ Len(routingTable[j]) > 1
    /\ lastUpdate.called /\ lastUpdate.ni.dAddr = DAddr

\* The bucket of the last updateRoutingTable call, as it is now.
updatedBucket == routingTable[bucketIndex(lastUpdate.ni)]

\* The last call inserted a peer that was not in its bucket, which was full.
InsertedIntoFullBucket ==
    /\ lastUpdate.called
    /\ bucketIndex(lastUpdate.ni) >= 0
    /\ Len(lastUpdate.prev) = bucketSize
    /\ \A k \in 1..Len(lastUpdate.prev) : lastUpdate.prev[k].dAddr # lastUpdate.ni.dAddr

\* C3: inserting a new peer into a full bucket removes the peer at position
\* 0, appends the new peer, keeps the order of the others and the length.
FullBucketEvictsHead ==
    InsertedIntoFullBucket =>
        /\ Len(updatedBucket) = bucketSize
        /\ updatedBucket[bucketSize] = lastUpdate.ni
        /\ \A k \in 1..(bucketSize - 1) : updatedBucket[k] = lastUpdate.prev[k + 1]
        /\ \A k \in 1..bucketSize : updatedBucket[k].dAddr # lastUpdate.prev[1].dAddr

\* C3 witness: a new peer has been inserted into a full bucket.
WitnessInsertedIntoFullBucket == InsertedIntoFullBucket

\* The buckets whose entries a lookup reply is drawn from entirely.
sourceBuckets(infos) ==
    {i \in DOMAIN routingTable :
        \A k \in 1..Len(infos) : \E e \in 1..Len(routingTable[i]) :
            NodeInfoMsg(routingTable[i][e]) = infos[k]}

\* C4: a successful FindNode for a target other than the node's address
\* returns at most alpha entries, all of one bucket, none farther from the
\* target than an entry of that bucket that is not returned.
FindNodeReturnsNearestOfOneBucket ==
    (reply.rpc = "FindNode" /\ reply.code = "OK" /\ reply.message # DAddr) =>
        /\ Len(reply.infos) <= alpha
        /\ \A k, l \in 1..Len(reply.infos) : k # l => reply.infos[k] # reply.infos[l]
        /\ \E i \in sourceBuckets(reply.infos) :
              \A e \in 1..Len(routingTable[i]) :
                  \/ \E k \in 1..Len(reply.infos) :
                        reply.infos[k] = NodeInfoMsg(routingTable[i][e])
                  \/ \A k \in 1..Len(reply.infos) :
                        lessThanEqual(xor(reply.infos[k].DoogleAddress, reply.message),
                                      xor(routingTable[i][e].dAddr, reply.message))

\* C4 witness: a lookup returned alpha entries of a bucket holding more, and
\* the bucket's first entry is among those left out.
WitnessFindNodeLeavesOut ==
    /\ reply.rpc = "FindNode" /\ reply.code = "OK" /\ reply.message # DAddr
    /\ Len(reply.infos) = alpha
    /\ \E i \in sourceBuckets(reply.infos) :
          /\ Len(routingTable[i]) > alpha
          /\ \A k \in 1..alpha : reply.infos[k] # NodeInfoMsg(routingTable[i][1])

(***************************************************************************)
(* Properties of the bucket walk.                                          *)
(***************************************************************************)
AllBucketsEmpty == \A i \in DOMAIN routingTable : routingTable[i] = <<>>

\* C5: on an empty table the walk of findNearestNode from any start index
\* stays within 0..159, visits no index twice, and ends, after it has
\* visited all 160 indices, returning nothing.
WalkVisitsEveryBucketOnce ==
    (AllBucketsEmpty /\ walk.state # "idle") =>
        /\ walk.state \in {"walking", "empty"}
        /\ Range(walk.visited) \subseteq 0..159
        /\ Cardinality(Range(walk.visited)) = Len(walk.visited)
        /\ walk.state = "walking" => Len(walk.visited) < 160
        /\ walk.state = "empty" => Range(walk.visited) = 0..159 /\ walk.ret = <<>>

\* C5 witness: a walk that started in the middle of the table has ended.
WitnessWalkFromMiddleEnded ==
    /\ AllBucketsEmpty
    /\ walk.state = "empty" /\ walk.msb = 80 /\ Len(walk.visited) = 160

(***************************************************************************)
(* Properties of the query engine.                                         *)
(***************************************************************************)
\* GetIndex has returned a list of items.
GetIndexReturned == reply.rpc = "GetIndex" /\ reply.code = "OK"

\* The occurrences of url u that were merged, from the history of merges:
\* their number and the sum of their ranks.
RECURSIVE rankSum(_, _)
rankSum(b, S) ==
    IF S = {} THEN 0
    ELSE LET x == CHOOSE x \in S : TRUE IN x.LocalRank * b[x] + rankSum(b, S \ {x})

RECURSIVE occurrences(_, _)
occurrences(b, S) ==
    IF S = {} THEN 0
    ELSE LET x == CHOOSE x \in S : TRUE IN b[x] + occurrences(b, S \ {x})

mergedOf(u) == {x \in DOMAIN query.merged : x.Url = u}
sumOf(u) == rankSum(query.merged, mergedOf(u))
numOf(u) == occurrences(query.merged, mergedOf(u))

\* avgRank(u) >= avgRank(v), and avgRank(u) = avgRank(v).
avgAtLeast(u, v) == sumOf(u) * numOf(v) >= sumOf(v) * numOf(u)
avgEqual(u, v) == sumOf(u) * numOf(v) = sumOf(v) * numOf(u)

\* The position of url u in the result list as it was appended to.
appendedAt(u) == CHOOSE k \in 1..Len(query.ret) : query.ret[k].Url = u

\* C8: GetIndex returns at most maxNumGetItem items.
GetIndexReturnsAtMostMaxItems ==
    GetIndexReturned => Len(reply.items) <= maxNumGetItem

\* C9: the list GetIndex returns is ordered by non-increasing avgRank, the
\* avgRank of a url being the sum of the ranks of its merged occurrences
\* divided by their number.
GetIndexOrderedByAverageRank ==
    GetIndexReturned =>
        \A i, j \in 1..Len(reply.items) :
            /\ numOf(reply.items[i].Url) > 0
            /\ i < j => avgAtLeast(reply.items[i].Url, reply.items[j].Url)

\* C9 witness: the returned list is not in the order of appending, a url
\* has a local and a remote occurrence of different ranks, and two averages differ.
WitnessGetIndexReordered ==
    /\ GetIndexReturned
    /\ reply.items # query.ret
    /\ \E u \in 1..3 : numOf(u) = 2 /\ sumOf(u) \in {1, 3}
    /\ \E i, j \in 1..Len(reply.items) :
          ~avgEqual(reply.items[i].Url, reply.items[j].Url)

\* C10: two returned items of equal avgRank are in the order in which their
\* urls were appended to the result list.
GetIndexTiesInAppendOrder ==
    GetIndexReturned =>
        \A i, j \in 1..Len(reply.items) :
            (i < j /\ avgEqual(reply.items[i].Url, reply.items[j].Url))
                => appendedAt(reply.items[i].Url) < appendedAt(reply.items[j].Url)

(***************************************************************************)
(* The node serving its clients, one RPC at a time. A client pings the     *)
(* node before it queries it, and the query is the last call served.       *)
(***************************************************************************)
\* A certificate whose DoogleAddress has 19 bytes: the last byte of the
\* digest is zero and left out, so the copy into a doogleAddress (zero
\* padded) is the digest.
TruncatedCert ==
    [networkAddress |-> 16, doogleAddress |-> powHash(16, 3, 3),
     addrLen |-> addressLength - 1, publicKey |-> 3, nonce |-> 3, difficulty |-> 0]

\* The clients: the node itself, a host that solved the hardest puzzle, a
\* host that declares difficulty 0, a certificate with a wrong nonce and one
\* with a truncated address.
Clients ==
    {[cert |-> certificate, own |-> TRUE]}
        \cup {[cert |-> c, own |-> FALSE] :
                c \in {HostCert(1, MaxDifficulty), HostCert(2, 0),
                       [HostCert(1, MaxDifficulty) EXCEPT !.nonce = 2], TruncatedCert}}

\* The clients of the RPCs whose request carries no certificate.
Anonymous == {c \in Clients : c.own \/ c.cert.nonce = 2}

\* What the peer of a fan-out task answers.
PeerReplies ==
    {[kind |-> "Items", infos |-> <<>>, items |-> <<RemoteItem(1, 2)>>],
     [kind |-> "NodeInfos", items |-> <<>>,
      infos |-> <<NodeInfoMsg(nodeInfoOf(HostCert(4, 0)))>>]}

\* No call of GetIndex has been made.
Serving == query.pc = "idle" /\ reply.rpc # "GetIndex"

Next ==
    \/ Serving /\ Ping
    \/ Serving /\ \E in \in Clients : PingWithCertificate(in)
    \/ Serving /\ \E in \in Clients : FindNode(in, {159, 1})
    \/ Serving /\ \E in \in Clients, title \in {"t1", "t2"}, edgeURLs \in {<<>>, <<2>>} :
          StoreItem(in, 1, title, "a", edgeURLs)
    \/ Serving /\ \E in \in Clients : FindIndex(in, sha1Token("a"))
    \/ Serving /\ \E who \in Anonymous, failed \in BOOLEAN :
          PingTo(who, failed, IF failed THEN certificate ELSE HostCert(2, 0))
    \/ Serving /\ \E who \in Anonymous :
          PingTo(who, FALSE, [HostCert(2, 0) EXCEPT !.nonce = 2])
    \/ Serving /\ \E rank \in 0..1 : ComputePageRank(sha1Url(1), rank)
    \/ \E who \in Anonymous : reply.rpc = "Ping" /\ GetIndexBegin(who, "a")
    \/ \E i \in 1..alpha, h \in 1..NumHosts :
          \/ TaskFindIndex(i, h, TRUE, query.res)
          \/ \E r \in PeerReplies : TaskFindIndex(i, h, FALSE, r)
    \/ \E i \in 1..alpha : TaskReadItems(i)
    \/ \E i \in 1..alpha : TaskReadNodeInfos(i)
    \/ \E i \in 1..alpha : TaskMergeItem(i)
    \/ \E i \in 1..alpha :
          \/ TaskWarmup(i, TRUE, certificate)
          \/ TaskWarmup(i, FALSE, HostCert(4, 0))
    \/ GetIndexReturn

Spec == Init /\ [][Next]_vars

(***************************************************************************)
(* StoreItem served by NumThreads threads at once.                         *)
(***************************************************************************)
StoreCallers ==
    {[cert |-> certificate, own |-> TRUE],
     [cert |-> [HostCert(1, MaxDifficulty) EXCEPT !.nonce = 2], own |-> FALSE]}

NextStore ==
    \/ \E t \in 1..NumThreads, in \in StoreCallers, url \in 1..2, index \in {"a", "b"} :
          StoreItemCall(t, in, url, "t1", index, <<>>)
    \/ \E t \in 1..NumThreads : StoreItemLoadIndex(t)
    \/ \E t \in 1..NumThreads : StoreItemLock(t)
    \/ \E t \in 1..NumThreads : StoreItemAppend(t)
    \/ \E t \in 1..NumThreads : StoreItemRegister(t)
    \/ \E t \in 1..NumThreads : StoreItemStore(t)
    \/ \E t \in 1..NumThreads : StoreItemReturn(t)

SpecStore == InitQuery /\ [][NextStore]_vars

(***************************************************************************)
(* StoreItem of the node's own requests for one url under two indices,     *)
(* with and without edges, served by NumThreads threads at once.           *)
(***************************************************************************)
NextCrawl ==
    \/ \E t \in 1..NumThreads, index \in {"a", "b"}, edgeURLs \in {<<>>, <<2>>} :
          StoreItemCall(t, [cert |-> certificate, own |-> TRUE], 1, "t1", index, edgeURLs)
    \/ \E t \in 1..NumThreads : StoreItemLoadIndex(t)
    \/ \E t \in 1..NumThreads : StoreItemLock(t)
    \/ \E t \in 1..NumThreads : StoreItemAppend(t)
    \/ \E t \in 1..NumThreads : StoreItemRegister(t)
    \/ \E t \in 1..NumThreads : StoreItemStore(t)
    \/ \E t \in 1..NumThreads : StoreItemReturn(t)

SpecCrawl == InitQuery /\ [][NextCrawl]_vars

(***************************************************************************)
(* FindIndex on an index while NumThreads threads serve StoreItem on it.   *)
(* findIndex takes no lock (lines 466-512); it is taken here as one step   *)
(* between any two statements of the StoreItem calls.                      *)
(***************************************************************************)
NextRead ==
    \/ \E t \in 1..NumThreads, url \in 1..2 :
          StoreItemCall(t, [cert |-> certificate, own |-> TRUE], url, "t1", "a", <<>>)
    \/ \E t \in 1..NumThreads : StoreItemLoadIndex(t)
    \/ \E t \in 1..NumThreads : StoreItemLock(t)
    \/ \E t \in 1..NumThreads : StoreItemAppend(t)
    \/ \E t \in 1..NumThreads : StoreItemRegister(t)
    \/ \E t \in 1..NumThreads : StoreItemStore(t)
    \/ \E t \in 1..NumThreads : StoreItemReturn(t)
    \/ \E index \in {"a", "b"} :
          FindIndex([cert |-> certificate, own |-> TRUE], sha1Token(index))

SpecRead == InitQuery /\ [][NextRead]_vars

(***************************************************************************)
(* PostUrl, token by token, and its fan-out tasks.                         *)
(***************************************************************************)
\* What PostUrl has done for a token: the peers findNode returned, whether
\* the item was stored locally, the peers whose address a task took and
\* the peers a request was sent to.
TokenLog(token, peers, local, err) ==
    [token |-> token, peers |-> peers, local |-> local, err |-> err,
     tried |-> <<>>, sent |-> <<>>]

\* Lines 648-660: the page is analyzed (the crawler fails, or returns the
\* title, the tokens and the edge urls) and the request is built.
PostUrlBegin(url, title, tokens, edgeURLs, failed) ==
    /\ post.pc = "idle"
    /\ IF failed
       THEN /\ reply' = [NoReply EXCEPT !.rpc = "PostUrl", !.code = "Internal"]
            /\ UNCHANGED post
       ELSE /\ reply' = [NoReply EXCEPT !.rpc = "PostUrl:call"]
            /\ post' = [NoPost EXCEPT !.pc = "token", !.url = url, !.title = title,
                                      !.tokens = tokens, !.edgeURLs = edgeURLs,
                                      !.posted = post.posted]
    /\ lastUpdate' = NoUpdate
    /\ UNCHANGED <<identity, routingTable, walk, store, query, storing, puzzle, conns>>

\* Lines 663-683: findNode for the next token; on an error the
\* token is skipped; without peers the item is stored by the node's own
\* StoreItem, called with the node's certificate; else a task is spawned
\* for each peer.
PostUrlToken ==
    /\ post.pc = "token" /\ post.k <= Len(post.tokens)
    /\ LET token == post.tokens[post.k]
           near == findNode(routingTable, sha1Token(token))
       IN IF near.err
          THEN /\ post' = [post EXCEPT !.k = @ + 1,
                              !.log = Append(@, TokenLog(token, <<>>, FALSE, TRUE))]
               /\ UNCHANGED store
          ELSE \E rep \in near.rets :
               IF rep = <<>>
               THEN LET it == newItem(post.url, post.title, post.edgeURLs) IN
                    /\ isValidSender(certificate, TRUE)
                    /\ sha1Token(token) \notin DOMAIN dhtMux
                    /\ dht' = appendItemAddress(dhtLoadOrStore(dht, sha1Token(token)),
                                                sha1Token(token), it.dAddrStr)
                    /\ items' = registerItem(items, it)
                    /\ crawls' = IF it.dAddrStr \in DOMAIN items THEN crawls
                                 ELSE Append(crawls, post.edgeURLs)
                    /\ storeLog' = [requested |-> storeLog.requested
                                        \cup {<<sha1Token(token), it.dAddrStr>>},
                                    returned |-> storeLog.returned
                                        \cup {<<sha1Token(token), it.dAddrStr>>}]
                    /\ post' = [post EXCEPT !.k = @ + 1,
                                   !.log = Append(@, TokenLog(token, <<>>, TRUE, FALSE))]
               ELSE /\ post' = [post EXCEPT !.pc = "fanout", !.rep = rep,
                                   !.tasks = [i \in 1..Len(rep) |-> "start"],
                                   !.log = Append(@, TokenLog(token,
                                              [i \in 1..Len(rep) |-> rep[i].NetworkAddress],
                                              FALSE, FALSE))]
                    /\ UNCHANGED store
    /\ reply' = [NoReply EXCEPT !.rpc = "PostUrl:token"]
    /\ lastUpdate' = NoUpdate
    /\ UNCHANGED <<identity, routingTable, walk, query, storing, puzzle, conns>>

\* Lines 684-698: task i takes the network address from the loop variable
\* ni (shared by the tasks of the token: it holds the peer of task i or of
\* a later one), dials it and sends the StoreItem request; a failed dial
\* ends the task without a request.
PostTaskStoreItem(i, j, dialFailed) ==
    /\ post.pc = "fanout"
    /\ i \in DOMAIN post.tasks /\ post.tasks[i] = "start"
    /\ j \in i..Len(post.rep)
    /\ LET nAddr == post.rep[j].NetworkAddress
           n == Len(post.log)
       IN post' = [post EXCEPT !.tasks[i] = "done",
                      !.log[n].tried = bagAdd(@, nAddr),
                      !.log[n].sent = IF dialFailed THEN @ ELSE bagAdd(@, nAddr)]
    /\ reply' = [NoReply EXCEPT !.rpc = "PostUrl:StoreItem"]
    /\ lastUpdate' = NoUpdate
    /\ UNCHANGED <<identity, routingTable, walk, store, query, storing, puzzle, conns>>

\* Line 700: wg.Wait() returns; the next token.
PostUrlJoin ==
    /\ post.pc = "fanout"
    /\ \A i \in DOMAIN post.tasks : post.tasks[i] = "done"
    /\ post' = [post EXCEPT !.pc = "token", !.k = @ + 1]
    /\ reply' = [NoReply EXCEPT !.rpc = "PostUrl:join"]
    /\ lastUpdate' = NoUpdate
    /\ UNCHANGED <<identity, routingTable, walk, store, query, storing, puzzle, conns>>

\* Line 703: every token is done.
PostUrlReturn ==
    /\ post.pc = "token" /\ post.k > Len(post.tokens)
    /\ post' = [NoPost EXCEPT !.log = post.log, !.tasks = post.tasks,
                   !.posted = post.posted
                      \cup {<<post.url, post.tokens[i]>> : i \in 1..Len(post.tokens)}]
    /\ reply' = [NoReply EXCEPT !.rpc = "PostUrl", !.message = "post url finished"]
    /\ lastUpdate' = NoUpdate
    /\ UNCHANGED <<identity, routingTable, walk, store, query, storing, puzzle, conns>>

\* PostUrl on a node that hosts 2 and 3 may have pinged before.
NextPost ==
    \/ \E h \in 2..3 :
          /\ post.pc = "idle" /\ post.log = <<>>
          /\ PingWithCertificate([cert |-> HostCert(h, 0), own |-> FALSE])
    \/ \E tokens \in {<<"a">>, <<"b", "a">>}, failed \in BOOLEAN :
          PostUrlBegin(1, "t1", tokens, <<>>, failed)
    \/ PostUrlToken
    \/ \E i \in 1..alpha, j \in 1..alpha, dialFailed \in BOOLEAN :
          PostTaskStoreItem(i, j, dialFailed)
    \/ PostUrlJoin
    \/ PostUrlReturn

SpecPost == InitQuery /\ [][NextPost]_vars

\* PostUrl and GetIndex on a node that no peer has contacted.
NextSolo ==
    \/ \E url \in 1..2, tokens \in {<<"a">>, <<"b", "a">>}, failed \in BOOLEAN :
          PostUrlBegin(url, "t1", tokens, <<>>, failed)
    \/ PostUrlToken
    \/ PostUrlReturn
    \/ \E keyword \in {"a", "b"} :
          GetIndexBegin([cert |-> certificate, own |-> TRUE], keyword)
    \/ GetIndexReturn

SpecSolo == InitQuery /\ [][NextSolo]_vars

(***************************************************************************)
(* The connection cache. Each of NumThreads tasks calls                    *)
(* getConnByNetworkAddress once; the connection that task t dials is       *)
(* connection t. handedOut, closed and down are history.                   *)
(***************************************************************************)
\* The cache without a check of the key: the stored connection replaces.
cacheStore(cache, nAddr, conn) ==
    [a \in DOMAIN cache \cup {nAddr} |-> IF a = nAddr THEN conn ELSE cache[a]]

\* Task t calls getConnByNetworkAddress(nAddr).
ConnCall(t, nAddr) ==
    /\ ~conns.down
    /\ conns.tasks[t].pc = "idle"
    /\ conns' = [conns EXCEPT !.tasks[t] = [pc |-> "load", nAddr |-> nAddr, conn |-> 0]]
    /\ UNCHANGED <<identity, routing, reply, walk, store, query, storing, puzzle, post>>

\* Line 740: n.nAddrToConn.Load(nAddr); lines 749-754 on a hit.
ConnLoad(t) ==
    /\ conns.tasks[t].pc = "load"
    /\ conns' = IF conns.tasks[t].nAddr \in DOMAIN conns.cache
                THEN [conns EXCEPT !.tasks[t].pc = "return",
                                   !.tasks[t].conn = conns.cache[conns.tasks[t].nAddr]]
                ELSE [conns EXCEPT !.tasks[t].pc = "dial"]
    /\ UNCHANGED <<identity, routing, reply, walk, store, query, storing, puzzle, post>>

\* Lines 743-746: grpc.Dial; on an error the call returns it.
ConnDial(t, failed) ==
    /\ conns.tasks[t].pc = "dial"
    /\ conns' = IF failed
                THEN [conns EXCEPT !.tasks[t].pc = "failed"]
                ELSE [conns EXCEPT !.tasks[t].pc = "store", !.tasks[t].conn = t]
    /\ UNCHANGED <<identity, routing, reply, walk, store, query, storing, puzzle, post>>

\* Line 748: n.nAddrToConn.Store(nAddr, conn).
ConnStore(t) ==
    /\ conns.tasks[t].pc = "store"
    /\ conns' = [conns EXCEPT !.tasks[t].pc = "return",
                              !.cache = cacheStore(@, conns.tasks[t].nAddr,
                                                   conns.tasks[t].conn)]
    /\ UNCHANGED <<identity, routing, reply, walk, store, query, storing, puzzle, post>>

\* Line 755: the connection is returned to the caller.
ConnReturn(t) ==
    /\ conns.tasks[t].pc = "return"
    /\ conns' = [conns EXCEPT !.tasks[t].pc = "done",
                              !.handedOut = @ \cup {conns.tasks[t].conn}]
    /\ UNCHANGED <<identity, routing, reply, walk, store, query, storing, puzzle, post>>

\* Node.CloseConnections, at teardown: every call has returned.
CloseConnections ==
    /\ ~conns.down
    /\ \A t \in 1..NumThreads : conns.tasks[t].pc \in {"idle", "done", "failed"}
    /\ conns' = [conns EXCEPT !.down = TRUE,
                              !.closed = {conns.cache[a] : a \in DOMAIN conns.cache}]
    /\ UNCHANGED <<identity, routing, reply, walk, store, query, storing, puzzle, post>>

NextConns ==
    \/ \E t \in 1..NumThreads, nAddr \in 1..2 : ConnCall(t, nAddr)
    \/ \E t \in 1..NumThreads : ConnLoad(t)
    \/ \E t \in 1..NumThreads, failed \in BOOLEAN : ConnDial(t, failed)
    \/ \E t \in 1..NumThreads : ConnStore(t)
    \/ \E t \in 1..NumThreads : ConnReturn(t)
    \/ CloseConnections

SpecConns == Init /\ [][NextConns]_vars

(***************************************************************************)
(* The network puzzle: the search of a node address for a network address, *)
(* a public key and a difficulty, and the verification of an address.      *)
(***************************************************************************)
\* newNodeAddress is called: the search begins.
PuzzleBegin(nAddr, pk, d) ==
    /\ puzzle.pc \in {"idle", "verified"}
    /\ puzzle' = [NoPuzzle EXCEPT !.pc = "search", !.nAddr = nAddr, !.pk = pk,
                     !.difficulty = d]
    /\ UNCHANGED <<identity, routing, reply, walk, store, query, storing, conns, post>>

\* One round of the search: a nonce is sampled and the candidate computed;
\* the search ends when the leading `difficulty` bits of the candidate are zero.
PuzzleSample(k) ==
    /\ puzzle.pc = "search"
    /\ LET candidate == powHash(puzzle.nAddr, puzzle.pk, k) IN
       puzzle' = [puzzle EXCEPT !.nonce = k, !.addr = candidate,
                     !.pc = IF leadingZeroBits(candidate, puzzle.difficulty)
                            THEN "derived" ELSE "search"]
    /\ UNCHANGED <<identity, routing, reply, walk, store, query, storing, conns, post>>

\* verifyAddress is called on the address derived, with the nonce k and the
\* difficulty d.
PuzzleVerify(k, d) ==
    /\ puzzle.pc = "derived"
    /\ puzzle' = [puzzle EXCEPT !.pc = "verified",
                     !.checked = [nonce |-> k, difficulty |-> d],
                     !.ok = verifyAddress(puzzle.addr, puzzle.nAddr, puzzle.pk, k, d)]
    /\ UNCHANGED <<identity, routing, reply, walk, store, query, storing, conns, post>>

NextPuzzle ==
    \/ \E nAddr \in 0..NumHosts, pk \in 0..1, d \in 0..MaxDifficulty :
          PuzzleBegin(nAddr, pk, d)
    \/ \E k \in 1..MaxNonce : PuzzleSample(k)
    \/ \E k \in 1..MaxNonce, d \in 0..MaxDifficulty : PuzzleVerify(k, d)

SpecPuzzle == Init /\ [][NextPuzzle]_vars

(***************************************************************************)
(* Properties of admission and of the store.                               *)
(***************************************************************************)
\* The handlers whose request carries the caller's certificate.
CertificateHandlers == {"StoreItem", "FindNode", "FindIndex", "PingWithCertificate"}

\* The caller is not the node itself, and its certificate is short, declares
\* less than the node's difficulty, or does not reproduce its address with
\* the declared number of leading zero bits.
notAdmitted(c) ==
    /\ ~c.own
    /\ \/ c.cert.addrLen < addressLength
       \/ c.cert.difficulty < difficulty
       \/ powHash(c.cert.networkAddress, c.cert.publicKey, c.cert.nonce)
              # c.cert.doogleAddress
       \/ \E b \in c.cert.doogleAddress : b >= addressBits - c.cert.difficulty

\* C1 as stated: StoreItem, FindNode, FindIndex, PingWithCertificate, PingTo
\* and GetIndex refuse a caller that is not admitted with InvalidArgument.
EveryHandlerRefusesNotAdmitted ==
    (reply.rpc \in CertificateHandlers \cup {"PingTo", "GetIndex"}
        /\ notAdmitted(reply.caller))
            => reply.code = "InvalidArgument"

\* C1 amended: the handlers whose request carries a certificate (StoreItem,
\* FindNode, FindIndex, PingWithCertificate) refuse a caller that is not
\* admitted with InvalidArgument, whatever the node's state.
CertificateHandlersRefuseNotAdmitted ==
    (reply.rpc \in CertificateHandlers /\ notAdmitted(reply.caller))
        => reply.code = "InvalidArgument"

\* C1 witness: a host whose certificate verifies but declares less than the
\* node's difficulty is refused by StoreItem on a node that holds a peer
\* and an item.
WitnessStoreItemRefused ==
    /\ reply.rpc = "StoreItem" /\ reply.code = "InvalidArgument"
    /\ reply.caller.cert = HostCert(2, 0) /\ difficulty > 0
    /\ items # <<>>
    /\ \E i \in DOMAIN routingTable : routingTable[i] # <<>>

\* The entry of index address idx lists item address a exactly once.
listedOnce(idx, a) ==
    /\ idx \in DOMAIN dht
    /\ Cardinality({k \in 1..Len(dht[idx]) : dht[idx][k] = a}) = 1

\* C6: whatever calls of StoreItem were made, one after the other or at once,
\* an index entry lists no item address twice and only item addresses some
\* call stored under it, and it lists the item address of every call that
\* has returned exactly once.
StoreItemIdempotent ==
    /\ \A idx \in DOMAIN dht :
          /\ \A i, j \in 1..Len(dht[idx]) : i # j => dht[idx][i] # dht[idx][j]
          /\ \A k \in 1..Len(dht[idx]) : <<idx, dht[idx][k]>> \in storeLog.requested
    /\ \A p \in storeLog.returned : listedOnce(p[1], p[2])

\* C6 witness: a call for an url and a token has returned; a second call for
\* them holds the mutex of the entry, past its append, and a third one waits
\* for the mutex; the entry lists the one item address.
WitnessStoreItemRepeated ==
    /\ calls[1].pc = "register" /\ calls[2].pc = "lock"
    /\ calls[1].index = calls[2].index /\ calls[1].it = calls[2].it
    /\ <<idxAddrOf(1), itemAddrOf(1)>> \in storeLog.returned
    /\ dht[idxAddrOf(1)] = <<itemAddrOf(1)>>

CertificateChecked == reply.rpc \in CertificateHandlers
CheckSucceeded == reply.code # "InvalidArgument"

\* The address of the certificate, copied into a doogleAddress, is the
\* digest of its network address, public key and nonce and has the declared
\* number of leading zero bits.
addressVerifies(ct) ==
    /\ powHash(ct.networkAddress, ct.publicKey, ct.nonce) = ct.doogleAddress
    /\ \A b \in ct.doogleAddress : b < addressBits - ct.difficulty

\* C12 as stated: isValidSender returns true if and only if the certificate
\* is the node's own, or its declared difficulty is at least the node's and
\* its address verifies.
ValidSenderIffOwnOrVerified ==
    CertificateChecked =>
        (CheckSucceeded <=>
            \/ reply.caller.own
            \/ /\ reply.caller.cert.difficulty >= difficulty
               /\ addressVerifies(reply.caller.cert))

\* C12 amended: isValidSender returns true if and only if the certificate is
\* the node's own, or its DoogleAddress has at least addressLength bytes, its
\* declared difficulty is at least the node's and its address verifies; a
\* certificate that declares less than the node's difficulty and is not the
\* node's own is never admitted.
ValidSenderIffOwnOrLongAndVerified ==
    CertificateChecked =>
        /\ CheckSucceeded <=>
            \/ reply.caller.own
            \/ /\ reply.caller.cert.addrLen >= addressLength
               /\ reply.caller.cert.difficulty >= difficulty
               /\ addressVerifies(reply.caller.cert)
        /\ (~reply.caller.own /\ reply.caller.cert.difficulty < difficulty)
               => ~CheckSucceeded

\* C12 witness: on a node of difficulty 0 the certificate with the truncated
\* address, which verifies, is refused.
WitnessTruncatedCertRefused ==
    /\ CertificateChecked /\ ~CheckSucceeded
    /\ reply.caller.cert = TruncatedCert
    /\ difficulty = 0
    /\ addressVerifies(TruncatedCert)

(***************************************************************************)
(* Properties of the touch of the routing table.                           *)
(***************************************************************************)
\* The bucket of the caller's address: msb(DAddr xor caller address).
callerBucket == getMostSignificantBit(xor(DAddr, reply.caller.cert.doogleAddress))

\* The caller is the last element of its bucket.
CallerIsMostRecent ==
    /\ callerBucket >= 0
    /\ Len(routingTable[callerBucket]) > 0
    /\ routingTable[callerBucket][Len(routingTable[callerBucket])]
          = [dAddr |-> reply.caller.cert.doogleAddress,
             nAddr |-> reply.caller.cert.networkAddress]

TouchMovesPeerToTail ==
    [][LET info == lastUpdate'.ni
           idx == bucketIndex(info)
       IN (lastUpdate'.called /\ idx >= 0
              /\ \E i \in 1..Len(routingTable[idx]) : routingTable[idx][i].dAddr = info.dAddr)
          => LET old == routingTable[idx]
                 new == routingTable'[idx]
                 i == CHOOSE i \in 1..Len(old) : old[i].dAddr = info.dAddr
             IN /\ Len(new) = Len(old)
                /\ \A k \in 1..(i - 1) : new[k] = old[k]
                /\ \A k \in i..(Len(old) - 1) : new[k] = old[k + 1]
                /\ new[Len(old)] = old[i]
                /\ {new[k] : k \in 1..Len(new)} = {old[k] : k \in 1..Len(old)}
                /\ \A j \in DOMAIN routingTable \ {idx} : routingTable'[j] = routingTable[j]
      ]_vars

\* C20 witness: the peer touched was in the middle of a full bucket, and
\* another bucket holds a peer.
WitnessTouchedInTheMiddle ==
    /\ lastUpdate.called /\ bucketIndex(lastUpdate.ni) >= 0
    /\ Len(lastUpdate.prev) = bucketSize
    /\ lastUpdate.prev[2].dAddr = lastUpdate.ni.dAddr
    /\ \E j \in DOMAIN routingTable :
          j # bucketIndex(lastUpdate.ni) /\ routingTable[j] # <<>>

\* C20, the last position: the peer touched was the last of its bucket.
WitnessTouchedAtTheEnd ==
    /\ lastUpdate.called /\ bucketIndex(lastUpdate.ni) >= 0
    /\ Len(lastUpdate.prev) > 1
    /\ lastUpdate.prev[Len(lastUpdate.prev)].dAddr = lastUpdate.ni.dAddr

(***************************************************************************)
(* Properties of the crawl.                                                *)
(***************************************************************************)
\* C18: the crawler is scheduled for the edge urls of a request exactly in
\* the step in which that request is the first to register its item
\* address; a step that registers no new item address schedules no crawl;
\* at most one crawl is scheduled per item address.
CrawlExactlyOnFirstRegistration ==
    /\ [](Len(crawls) = Cardinality(DOMAIN items))
    /\ [][IF DOMAIN items' # DOMAIN items
          THEN \E t \in 1..NumThreads :
                  /\ calls[t].pc = "register"
                  /\ itemAddrOf(t) \notin DOMAIN items
                  /\ DOMAIN items' = DOMAIN items \cup {itemAddrOf(t)}
                  /\ items'[itemAddrOf(t)] = calls[t].it
                  /\ crawls' = Append(crawls, calls[t].edgeURLs)
          ELSE crawls' = crawls]_vars

\* C18 witness: a request found its item address registered by a request
\* with other edge urls, and only the edge urls of that one were crawled.
WitnessReplaceDidNotCrawl ==
    \E t \in 1..NumThreads :
        /\ calls[t].pc = "store"
        /\ Len(crawls) = 1
        /\ crawls[1] # calls[t].edgeURLs
        /\ \E u \in 1..NumThreads : u # t /\ calls[u].pc = "return"
                                     /\ itemAddrOf(u) = itemAddrOf(t)

(***************************************************************************)
(* Properties of findIndex.                                                *)
(***************************************************************************)
\* C19: a findIndex that finds an entry for the index address returns an
\* Items reply with one record for each item address of the entry, also
\* while StoreItem calls on the index are under way: the entry it reads is
\* not empty and lists registered addresses only; a findIndex that finds no
\* entry returns no items.
FindIndexReadsWholeEntry ==
    [][(reply'.rpc = "FindIndex" /\ reply'.code = "OK" /\ calls' = calls)
          => IF reply'.message \in DOMAIN dht
             THEN /\ dht[reply'.message] # <<>>
                  /\ \A k \in 1..Len(dht[reply'.message]) :
                        dht[reply'.message][k] \in DOMAIN items
                  /\ Len(reply'.items) = Len(dht[reply'.message])
             ELSE reply'.items = <<>>]_vars

\* What holds of findIndex next to StoreItem: the reply has a record for
\* each registered item address of the entry, in the entry's order.
FindIndexReadsRegisteredItems ==
    [][(reply'.rpc = "FindIndex" /\ reply'.code = "OK" /\ calls' = calls)
          => IF reply'.message \in DOMAIN dht
             THEN reply'.items = materialize(items, dht[reply'.message])
             ELSE reply'.items = <<>>]_vars

\* An Items reply without items: the entry was read between its creation
\* (line 328) and the registration of its first item (line 352).
WitnessFindIndexReadEmptyEntry ==
    /\ reply.rpc = "FindIndex" /\ reply.code = "OK"
    /\ reply.message \in DOMAIN dht
    /\ reply.items = <<>>
    /\ \E t \in 1..NumThreads : calls[t].pc \in {"lock", "append", "register"}

OtherNonceRefused ==
    (puzzle.pc = "verified" /\ puzzle.checked.nonce # puzzle.nonce) => ~puzzle.ok

(***************************************************************************)
(* Properties of the connection cache.                                     *)
(***************************************************************************)
\* The connections in the cache.
cached == {conns.cache[a] : a \in DOMAIN conns.cache}

\* C15: the connection stored first for a network address stays the cached
\* one, so every connection handed out is in the cache, and is closed once
\* CloseConnections has run.
ConnectionCacheFirstWriterWins ==
    /\ conns.handedOut \subseteq cached
    /\ conns.down => conns.handedOut \subseteq conns.closed

\* Two tasks missed the same network address, and the connection handed
\* out to the first is neither cached nor closed at teardown.
WitnessHandedOutConnectionLeaked ==
    /\ conns.down
    /\ \E c \in conns.handedOut : c \notin conns.closed
    /\ \A t \in 1..NumThreads : conns.tasks[t].pc = "done"

\* What holds of the cache: a cached address stays cached.
CachedAddressStaysCached ==
    [][DOMAIN conns.cache \subseteq DOMAIN conns'.cache]_vars

(***************************************************************************)
(* Properties of the fan-out of GetIndex.                                  *)
(***************************************************************************)
\* The occurrences of url u in the local result and in the Items replies
\* that the calls of FindIndex returned.
answeredOf(u) == occurrences(query.answered, {x \in DOMAIN query.answered : x.Url = u})

\* C16: when GetIndex returns, FindIndex was called once on each collected
\* peer, every url occurs once in the result list, and the count of a url
\* is the number of its occurrences in the local result and in the replies
\* of the peers that answered.
FanOutMergesEachReplyOnce ==
    GetIndexReturned =>
        /\ query.called = bagOf(query.nas)
        /\ \A i, j \in 1..Len(query.ret) :
              i # j => query.ret[i].Url # query.ret[j].Url
        /\ {x.Url : x \in DOMAIN query.answered} = {query.ret[i].Url : i \in 1..Len(query.ret)}
        /\ \A u \in DOMAIN query.scoreMap : query.scoreMap[u].num = answeredOf(u)

\* Every peer was called once and every call answered with items, yet the
\* count of a url differs from its occurrences in the replies.
WitnessReplyMergedTwice ==
    /\ GetIndexReturned
    /\ query.called = bagOf(query.nas)
    /\ \E u \in DOMAIN query.scoreMap : query.scoreMap[u].num > answeredOf(u)

\* A collected peer was never called and another was called twice.
WitnessPeerCalledTwice ==
    /\ GetIndexReturned
    /\ \E a \in DOMAIN query.called : query.called[a] > 1
    /\ \E i \in 1..Len(query.nas) : query.nas[i] \notin DOMAIN query.called

\* What holds of the result list at the join: every url occurs once in it,
\* and its count is the number of its merged occurrences.
ResultListsEachMergedUrlOnce ==
    GetIndexReturned =>
        /\ \A i, j \in 1..Len(query.ret) :
              i # j => query.ret[i].Url # query.ret[j].Url
        /\ \A u \in DOMAIN query.scoreMap : query.scoreMap[u].num = numOf(u)

(***************************************************************************)
(* Properties of PostUrl.                                                  *)
(***************************************************************************)
\* The tokens of the call that PostUrl is done with.
tokensDone ==
    {n \in 1..Len(post.log) : n < Len(post.log) \/ post.pc # "fanout"}

\* C17: for each token of the page, PostUrl stores the item locally exactly
\* when findNode returns no peers; otherwise one task takes each returned
\* peer once; PostUrl is at the next token or has returned only when every
\* task of the token has finished.
PostUrlReachesEveryPeerOnce ==
    /\ \A n \in tokensDone :
          /\ ~post.log[n].err => (post.log[n].local <=> post.log[n].peers = <<>>)
          /\ post.log[n].peers # <<>> => post.log[n].tried = bagOf(post.log[n].peers)
    /\ post.pc # "fanout" => \A i \in DOMAIN post.tasks : post.tasks[i] = "done"

\* Two peers were returned for a token and both tasks took the same one.
WitnessPeerLeftOut ==
    \E n \in tokensDone :
        /\ Len(post.log[n].peers) = 2
        /\ \E a \in DOMAIN post.log[n].tried : post.log[n].tried[a] = 2
        /\ post.pc = "idle"

\* What holds of PostUrl: the item is stored locally exactly when findNode
\* returns no peers, otherwise as many addresses are taken as peers were
\* returned and requests go to returned peers only, and the tasks of a token
\* have finished before the next token and before the return.
PostUrlJoinsItsTasks ==
    /\ \A n \in tokensDone :
          /\ ~post.log[n].err => (post.log[n].local <=> post.log[n].peers = <<>>)
          /\ occurrences(post.log[n].tried, DOMAIN post.log[n].tried)
                = Len(post.log[n].peers)
          /\ DOMAIN post.log[n].sent \subseteq
                {post.log[n].peers[i] : i \in 1..Len(post.log[n].peers)}
    /\ post.pc # "fanout" => \A i \in DOMAIN post.tasks : post.tasks[i] = "done"

\* The urls published under token t so far.
publishedUnder(t) == {p[2] : p \in {q \in storeLog.requested : q[1] = sha1Token(t)}}

\* C11: on a node with an empty routing table, a GetIndex(t) called after
\* PostUrl(u) has returned for a page with token t returns exactly one
\* item, with url u, when no other url was published under t.
PublishedUrlIsFound ==
    (GetIndexReturned /\ \A i \in DOMAIN routingTable : routingTable[i] = <<>>) =>
        \A p \in query.posted :
            (reply.message = sha1Token(p[2]) /\ publishedUnder(p[2]) = {sha1Url(p[1])})
                => (Len(reply.items) = 1 /\ reply.items[1].Url = p[1])

\* C11 witness: GetIndex("a") returned url 2 alone, posted before with the
\* tokens "b" and "a", while url 1 is published under "b".
WitnessPublishedUrlFound ==
    /\ GetIndexReturned
    /\ reply.message = sha1Token("a")
    /\ <<2, "a">> \in query.posted /\ <<2, "b">> \in query.posted
    /\ publishedUnder("a") = {sha1Url(2)}
    /\ sha1Url(1) \in publishedUnder("b")
    /\ Len(reply.items) = 1 /\ reply.items[1].Url = 2

(***************************************************************************)
(* Properties of the buckets over all calls.                               *)
(***************************************************************************)
\* C21: in every reachable state each bucket holds at most bucketSize peers
\* and no two entries of a bucket have the same node address; no step
\* makes a bucket shorter.
BucketsBoundedDistinctNeverShrink ==
    /\ [](\A i \in DOMAIN routingTable :
             /\ Len(routingTable[i]) <= bucketSize
             /\ \A j, k \in 1..Len(routingTable[i]) :
                   j # k => routingTable[i][j].dAddr # routingTable[i][k].dAddr)
    /\ [][\A i \in DOMAIN routingTable :
             Len(routingTable'[i]) >= Len(routingTable[i])]_vars

\* C21 witness: a bucket is full after a new peer was inserted into it when
\* it was full already, and another bucket holds a peer.
WitnessFullBucketStaysFull ==
    /\ InsertedIntoFullBucket
    /\ Len(updatedBucket) = bucketSize
    /\ \E i \in DOMAIN routingTable :
          i # bucketIndex(lastUpdate.ni) /\ Len(routingTable[i]) > 0

(***************************************************************************)
(* Properties of a refused call.                                           *)
(***************************************************************************)
\* C22: a call of StoreItem, FindNode, FindIndex or PingWithCertificate that
\* is refused for its certificate leaves the routing table, the DHT entries
\* and the item registry as they were and schedules no crawl.
RefusedCallChangesNothing ==
    [][(reply'.rpc \in CertificateHandlers /\ reply'.code = "InvalidArgument")
          => /\ routingTable' = routingTable
             /\ dht' = dht
             /\ items' = items
             /\ crawls' = crawls]_vars

\* C22 witness: FindIndex has refused a certificate whose nonce does not
\* reproduce its address, on a node that holds a peer, an index entry, an
\* item and a scheduled crawl, and the caller is in no bucket.
WitnessFindIndexRefusedOnFilledNode ==
    /\ reply.rpc = "FindIndex" /\ reply.code = "InvalidArgument"
    /\ reply.caller.cert.nonce = 2
    /\ dht # <<>> /\ items # <<>> /\ crawls # <<>>
    /\ \E i \in DOMAIN routingTable : routingTable[i] # <<>>
    /\ \A i \in DOMAIN routingTable : \A k \in 1..Len(routingTable[i]) :
          routingTable[i][k].dAddr # reply.caller.cert.doogleAddress

====
